---- MODULE Spec2Model ----
(***************************************************************************)
(* A state-machine model of src-tauri/src/whisper.rs: the orchestration    *)
(* entry point `run`, the segment callback `whisper_callback` that the     *)
(* engine re-enters during `state.full`, and `emit_err`.                   *)
(*                                                                         *)
(* The recognition engine, the WAV decoder and the host event bus are      *)
(* environment: their outcomes are nondeterministic choices.  The Store    *)
(* (crate::store, not part of this file) is modelled through the calls     *)
(* whisper.rs makes on it.                                                 *)
(***************************************************************************)
EXTENDS Integers, Sequences, FiniteSets, TLC

\* ------------------------------------------------------------------ bounds
\* Invocations of `run` in one behaviour.
MaxRuns == 2
\* Segments the engine finalizes in one behaviour (over all runs).
MaxSegments == 3
\* Segments the engine finalizes in one behaviour of two concurrent tasks.
MaxConcSegments == 1

\* ------------------------------------------------------- program constants
\* i16::MAX, the divisor of the sample normalisation (line 74).
I16_MAX == 32767
\* i16::MIN, the least value of a sample read by samples::<i16>() (line 73).
I16_MIN == -32768
\* The factor applied to the engine's timestamps (lines 41 and 42).
MS_SCALE == 10

\* ------------------------------------------------------------ environment
\* Run slots: tasks that may execute `run`.
Runs == {1, 2}

\* What the audio path held by the Store points at.
WavMissing == "missing"   \* WavReader::open fails
WavCorrupt == "corrupt"   \* opens, a sample fails to decode
WavPcm16   == "pcm16"     \* opens and decodes
WavPaths   == {WavMissing, WavCorrupt, WavPcm16}

\* What the model path held by the Store is.
ModelOk       == "model_ok"       \* the engine loads it
ModelRejected == "model_rejected" \* the engine cannot load it
ModelNonUtf8  == "model_nonutf8"  \* Path::to_str() yields None
ModelPaths    == {ModelOk, ModelRejected, ModelNonUtf8}

\* The language of a request is optional (get_lang() yields an Option).
NoLang == "<none>"

\* The other settings the Store can hold for a request.
Requests ==
    {[lang |-> NoLang, translate |-> FALSE, ms_offset |-> 0, ms_duration |-> 0],
     [lang |-> "en", translate |-> TRUE, ms_offset |-> 1000, ms_duration |-> 5000]}

\* The arguments a caller passes to `run` (lines 49-54); they differ from
\* every value the Store can hold.
Arguments ==
    [path_wav |-> "arg.wav", path_model |-> "arg.bin", lang |-> "arg_lang",
     translate |-> FALSE, offset_ms |-> 7, duration_ms |-> 7]

\* The text of an engine segment: a null pointer, bytes that are not UTF-8,
\* or a valid string.
NullText    == "<null>"
InvalidText == "<invalid>"
Subtitles   == {"konnichiwa"}
Texts       == Subtitles \cup {NullText, InvalidText}

\* Engine-native timestamps (t0, t1) of a segment; the engine finalizes a
\* segment with t0 <= t1.
TimePairs == {<<0, 50>>, <<50, 120>>, <<120, 200>>, <<50, 50>>}
EngineSegments == {[t0 |-> p[1], t1 |-> p[2], text |-> x] : p \in TimePairs, x \in Texts}

\* The samples of the WAV file of the behaviours of Spec.
DefaultSamples == <<I16_MIN, 0, I16_MAX>>

\* ---------------------------------------------------------------- results
\* The Err values `run` returns, named after the failure they report.
Ok                == "Ok"
StoreUnavailable  == "Mutex is poisoned"
AudioOpenError    == "AudioOpenError"
AudioDecodeError  == "AudioDecodeError"
ModelLoadError    == "ModelLoadError"
StateInitError    == "StateInitError"
EventEmissionError == "EventEmissionError"
DecodeError       == "DecodeError"
Panicked          == "panic"
Failures == {AudioOpenError, AudioDecodeError, ModelLoadError, StateInitError,
             EventEmissionError, DecodeError}

\* ------------------------------------------------------------------ state
VARIABLES
    store,       \* STORE: [path_wav, path_model, lang, translate, ms_offset,
                 \*         ms_duration, segments]
    lock,        \* holder of STORE's mutex: 0 (free) or a run
    poisoned,    \* STORE's mutex is poisoned
    wavSamples,  \* the i16 samples in the WAV file (environment)
    task,        \* per run: the locals of `run` and its position
    crashed,     \* the process has aborted
    nRuns,       \* invocations of `run` so far
    nSegs        \* segments finalized by the engine so far

vars == <<store, lock, poisoned, wavSamples, task, crashed, nRuns, nSegs>>

\* The locals of one invocation of `run` before its first statement.
\*   pc          position in `run`
\*   result      the value `run` returned ("none" while running)
\*   reader      reader_result (line 66)
\*   audio_data  the normalized samples (line 72)
\*   context     WhisperContext::new_with_params (line 94)
\*   state       context.create_state() (line 102)
\*   full        the result of state.full (line 119)
\*   args        the arguments of `run` (lines 49-54)
\*   wav_path    the path given to WavReader::open (line 66)
\*   params      the language, translate flag, offset and duration set on
\*               the decode parameters (lines 78-82)
\*   model_path  the path given to WhisperContext::new_with_params (line 95)
\*   segments    the segments held by the decode state
\*   handle      the Box<AppHandle> behind the callback's user data
\*   emits       the app.emit_all calls of this run, in order
\*   releases    how many times the Box was dropped (history)
\*   staleUse    the callback used the Box after it was dropped (history)
\*   did         the steps of `run` executed so far (history)
\*   atStart     the Store's segments when the run began (history)
\*   locked      the Store's request when the run took the lock (history)
FreshTask(pc0, segs0) ==
    [pc |-> pc0, result |-> "none", reader |-> "none", audio_data |-> <<>>,
     context |-> "none", state |-> "none", full |-> "none", args |-> Arguments,
     wav_path |-> "none", params |-> "none", model_path |-> "none",
     segments |-> <<>>,
     handle |-> "none", emits |-> <<>>, releases |-> 0, staleUse |-> FALSE,
     did |-> {}, atStart |-> segs0, locked |-> "none"]

\* ---------------------------------------------------------------- helpers
\* The payload of an emit_all call.
Event(status, message) == [status |-> status, message |-> message]

\* emit_err (lines 126-134): one emit_all with status "error"; the result of
\* emit_all is discarded.
emit_err(log, msg) == Append(log, Event("error", msg))

\* s as f32 / i16::MAX as f32 (line 74), kept as the exact quotient num/den.
\* Both operands are exact in f32, division rounds to nearest and 1.0 is an
\* f32, so the rounded quotient compares with -1.0 and 1.0 as num/den does.
Normalize(s) == [num |-> s, den |-> I16_MAX]

\* The map over the samples (lines 72-75).
NormalizeAll(samples) == [i \in 1..Len(samples) |-> Normalize(samples[i])]

\* Store::push_data: appends the segment and notifies the event sink.
push_data(st, start_ms, end_ms, subtitle) ==
    [st EXCEPT !.segments =
        Append(@, [start_ms |-> start_ms, end_ms |-> end_ms, text |-> subtitle])]

\* The data notification push_data sends through the handle.
DataEvent(start_ms, end_ms, subtitle) ==
    Event("data", <<start_ms, end_ms, subtitle>>)

\* The request the Store holds: every field but the segments.
Request(st) ==
    [path_wav |-> st.path_wav, path_model |-> st.path_model, lang |-> st.lang,
     translate |-> st.translate, ms_offset |-> st.ms_offset,
     ms_duration |-> st.ms_duration]

\* Lines 78-82: the settings read from the Store for the decode parameters;
\* the language defaults to "ja".
ReadParams(st) ==
    [lang |-> IF st.lang = NoLang THEN "ja" ELSE st.lang,
     translate |-> st.translate, offset_ms |-> st.ms_offset,
     duration_ms |-> st.ms_duration]

\* `run` returns `res`: the position becomes "done".
Return(t, res) == [t EXCEPT !.pc = "done", !.result = res]


\* Unlock that frees nothing: the guard is never dropped.
Unlock_Never(holder, r) == holder

\* The guard `config` goes out of scope: the lock is free again.
Unlock(holder, r) == IF holder = r THEN 0 ELSE holder

\* ------------------------------------------------------- whisper_callback
\* One way a callback invocation can end: the run's locals, the Store, and
\* whether the process aborted.
Outcome(t, st, c) == [task |-> t, store |-> st, crashed |-> c]

\* Lines 24-26: the text pointer is null; the callback returns at once.
callback_null(t, st) == {Outcome(t, st, FALSE)}

\* Lines 30-35: the text is not UTF-8.  Box::from_raw takes ownership of the
\* handle, emit_err uses it, and `return` drops the Box: the handle is freed.
\* With the handle already freed, line 31 rebuilds a Box on freed memory:
\* emit_err reads it and the drop frees it again (undefined behaviour); the
\* process may abort at the read, abort at the second free, or go on.
callback_invalid(t, st) ==
    LET msg == "Text segment could not be converted to string."
        emitted == [t EXCEPT !.emits = emit_err(@, msg)]
        dropped == [emitted EXCEPT !.handle = "freed", !.releases = @ + 1]
    IN  IF t.handle = "live"
        THEN {Outcome(dropped, st, FALSE)}
        ELSE {Outcome([t EXCEPT !.staleUse = TRUE], st, TRUE),
              Outcome([dropped EXCEPT !.staleUse = TRUE], st, TRUE),
              Outcome([dropped EXCEPT !.staleUse = TRUE], st, FALSE)}

\* callback_valid with the end timestamp read by the start accessor (t0 in
\* place of t1 at line 42).
callback_valid_t0_twice(t, st, psn, i_segment) ==
    LET seg       == t.segments[i_segment]
        start_ms  == seg.t0 * MS_SCALE
        end_ms    == seg.t0 * MS_SCALE
        pushed    == [t EXCEPT !.emits = Append(@, DataEvent(start_ms, end_ms, seg.text))]
        st2       == push_data(st, start_ms, end_ms, seg.text)
    IN  IF psn
        THEN {Outcome(t, st, TRUE)}
        ELSE IF t.handle = "live"
        THEN {Outcome(pushed, st2, FALSE)}
        ELSE {Outcome([t EXCEPT !.staleUse = TRUE], st, TRUE),
              Outcome([pushed EXCEPT !.staleUse = TRUE], st2, FALSE)}

\* Lines 38-45: the text of segment i_segment is valid.  Box::from_raw,
\* STORE.lock().unwrap(),
\* push_data with the timestamps times 10, Box::into_raw (no drop).
\* A poisoned mutex makes unwrap panic inside an extern "C" function: the
\* process aborts.  With the handle already freed, push_data notifies through
\* freed memory (undefined behaviour): the process may abort or go on.
\* The timestamps are i64 counts of 10 ms: the products stay far below 2^63.
callback_valid(t, st, psn, i_segment) ==
    LET seg       == t.segments[i_segment]
        start_ms  == seg.t0 * MS_SCALE
        end_ms    == seg.t1 * MS_SCALE
        pushed    == [t EXCEPT !.emits = Append(@, DataEvent(start_ms, end_ms, seg.text))]
        st2       == push_data(st, start_ms, end_ms, seg.text)
    IN  IF psn
        THEN {Outcome(t, st, TRUE)}
        ELSE IF t.handle = "live"
        THEN {Outcome(pushed, st2, FALSE)}
        ELSE {Outcome([t EXCEPT !.staleUse = TRUE], st, TRUE),
              Outcome([pushed EXCEPT !.staleUse = TRUE], st2, FALSE)}

\* whisper_callback reading the first segment of the decode state in place
\* of the last (index 0 in place of n_segments - 1 at line 22).
whisper_callback_first(t, st, psn) ==
    LET i_segment == 1
        c_str     == t.segments[i_segment].text
    IN  IF c_str = NullText THEN callback_null(t, st)
        ELSE IF c_str = InvalidText THEN callback_invalid(t, st)
        ELSE callback_valid(t, st, psn, i_segment)

\* Lines 16-46: the callback reads the last segment of the decode state
\* (index n_segments - 1) and branches on its text.
whisper_callback(t, st, psn) ==
    LET i_segment == Len(t.segments)
        c_str     == t.segments[i_segment].text
    IN  IF c_str = NullText THEN callback_null(t, st)
        ELSE IF c_str = InvalidText THEN callback_invalid(t, st)
        ELSE callback_valid(t, st, psn, i_segment)

\* -------------------------------------------------------------------- run
\* The caller sets the request in the Store and invokes `run` (lines 48-56);
\* the arguments of `run` are not read by its body.
Invoke(r) ==
    /\ ~crashed
    /\ task[r].pc \in {"idle", "done"}
    /\ nRuns < MaxRuns
    /\ lock = 0
    /\ \E w \in WavPaths, m \in ModelPaths, q \in Requests :
          store' = IF poisoned THEN store
                   ELSE [store EXCEPT !.path_wav = w, !.path_model = m,
                                      !.lang = q.lang, !.translate = q.translate,
                                      !.ms_offset = q.ms_offset,
                                      !.ms_duration = q.ms_duration]
    /\ task' = [task EXCEPT ![r] = FreshTask("lock", store.segments)]
    /\ nRuns' = nRuns + 1
    /\ UNCHANGED <<lock, poisoned, wavSamples, crashed, nSegs>>

\* Line 62: STORE.lock(); a poisoned mutex is returned as an Err.
Lock(r) ==
    /\ ~crashed
    /\ task[r].pc = "lock"
    /\ lock = 0
    /\ LET t == [task[r] EXCEPT !.did = @ \cup {"lock"}]
       IN  IF poisoned
           THEN /\ task' = [task EXCEPT ![r] = Return(t, StoreUnavailable)]
                /\ lock' = lock
           ELSE /\ task' = [task EXCEPT ![r] =
                      [t EXCEPT !.pc = "open", !.locked = Request(store)]]
                /\ lock' = r
    /\ UNCHANGED <<store, poisoned, wavSamples, crashed, nRuns, nSegs>>

\* OpenWav without the `return` of line 69: the failure is reported and the
\* run goes on.
OpenWav_NoReturn(r) ==
    /\ ~crashed
    /\ task[r].pc = "open"
    /\ LET t == [task[r] EXCEPT !.did = @ \cup {"open"}, !.wav_path = store.path_wav]
           msg == "wav_open"
       IN  IF store.path_wav = WavMissing
           THEN task' = [task EXCEPT ![r] =
                   [t EXCEPT !.reader = "Err", !.emits = emit_err(@, msg), !.pc = "samples"]]
           ELSE task' = [task EXCEPT ![r] = [t EXCEPT !.reader = "Ok", !.pc = "samples"]]
    /\ UNCHANGED <<store, lock, poisoned, wavSamples, crashed, nRuns, nSegs>>

\* OpenWav with the lock scoped to the accessor call get_path_wav(): the
\* guard is dropped as soon as the path is read.
OpenWav_AccessorScoped(r) ==
    /\ ~crashed
    /\ task[r].pc = "open"
    /\ LET t == [task[r] EXCEPT !.did = @ \cup {"open"}, !.wav_path = store.path_wav]
           msg == "wav_open"
       IN  IF store.path_wav = WavMissing
           THEN task' = [task EXCEPT ![r] =
                   Return([t EXCEPT !.reader = "Err", !.emits = emit_err(@, msg)],
                          AudioOpenError)]
           ELSE task' = [task EXCEPT ![r] = [t EXCEPT !.reader = "Ok", !.pc = "samples"]]
    /\ lock' = Unlock(lock, r)
    /\ UNCHANGED <<store, poisoned, wavSamples, crashed, nRuns, nSegs>>

\* Lines 66-71: open the WAV file named by the Store.
OpenWav(r) ==
    /\ ~crashed
    /\ task[r].pc = "open"
    /\ LET t == [task[r] EXCEPT !.did = @ \cup {"open"}, !.wav_path = store.path_wav]
           msg == "wav_open"
       IN  IF store.path_wav = WavMissing
           THEN /\ task' = [task EXCEPT ![r] =
                      Return([t EXCEPT !.reader = "Err", !.emits = emit_err(@, msg)],
                             AudioOpenError)]
                /\ lock' = Unlock(lock, r)
           ELSE /\ task' = [task EXCEPT ![r] = [t EXCEPT !.reader = "Ok", !.pc = "samples"]]
                /\ lock' = lock
    /\ UNCHANGED <<store, poisoned, wavSamples, crashed, nRuns, nSegs>>

\* Lines 72-76: decode every sample and normalize it, all or nothing.
ReadSamples(r) ==
    /\ ~crashed
    /\ task[r].pc = "samples"
    /\ LET t == [task[r] EXCEPT !.did = @ \cup {"samples"}]
       IN  IF store.path_wav = WavCorrupt
           THEN /\ task' = [task EXCEPT ![r] = Return(t, AudioDecodeError)]
                /\ lock' = Unlock(lock, r)
           ELSE /\ task' = [task EXCEPT ![r] =
                      [t EXCEPT !.audio_data = NormalizeAll(wavSamples), !.pc = "params"]]
                /\ lock' = lock
    /\ UNCHANGED <<store, poisoned, wavSamples, crashed, nRuns, nSegs>>

\* Lines 78-92: the decode parameters; the callback and its user data, a
\* leaked Box holding a clone of the handle.
SetParams(r) ==
    /\ ~crashed
    /\ task[r].pc = "params"
    /\ task' = [task EXCEPT ![r] =
          [@ EXCEPT !.did = @ \cup {"params"}, !.params = ReadParams(store),
                    !.handle = "live", !.pc = "model"]]
    /\ UNCHANGED <<store, lock, poisoned, wavSamples, crashed, nRuns, nSegs>>

\* LoadModel without the `?` of line 98: a rejected model does not end the
\* run.
LoadModel_NoAbort(r) ==
    /\ ~crashed
    /\ task[r].pc = "model"
    /\ LET t == [task[r] EXCEPT !.did = @ \cup {"model"},
                                !.model_path = store.path_model]
       IN  CASE store.path_model = ModelNonUtf8 ->
                  /\ task' = [task EXCEPT ![r] = Return(t, Panicked)]
                  /\ poisoned' = TRUE
             [] store.path_model = ModelRejected ->
                  /\ task' = [task EXCEPT ![r] = [t EXCEPT !.context = "Err", !.pc = "state"]]
                  /\ poisoned' = poisoned
             [] OTHER ->
                  /\ task' = [task EXCEPT ![r] = [t EXCEPT !.context = "Ok", !.pc = "state"]]
                  /\ poisoned' = poisoned
    /\ lock' = Unlock(lock, r)
    /\ UNCHANGED <<store, wavSamples, crashed, nRuns, nSegs>>

\* LoadModel without the block of lines 61-99: on success the guard lives on
\* to the end of `run`.
LoadModel_KeepsLock(r) ==
    /\ ~crashed
    /\ task[r].pc = "model"
    /\ LET t == [task[r] EXCEPT !.did = @ \cup {"model"},
                                !.model_path = store.path_model]
       IN  CASE store.path_model = ModelNonUtf8 ->
                  /\ task' = [task EXCEPT ![r] = Return(t, Panicked)]
                  /\ poisoned' = TRUE
                  /\ lock' = Unlock(lock, r)
             [] store.path_model = ModelRejected ->
                  /\ task' = [task EXCEPT ![r] =
                        Return([t EXCEPT !.context = "Err"], ModelLoadError)]
                  /\ poisoned' = poisoned
                  /\ lock' = Unlock(lock, r)
             [] OTHER ->
                  /\ task' = [task EXCEPT ![r] = [t EXCEPT !.context = "Ok", !.pc = "state"]]
                  /\ poisoned' = poisoned
                  /\ lock' = lock
    /\ UNCHANGED <<store, wavSamples, crashed, nRuns, nSegs>>

\* Lines 94-99: load the model named by the Store; the block ends and the
\* guard is dropped.  to_str().unwrap() panics on a path that is not UTF-8,
\* with the guard held: the mutex is poisoned as the panic unwinds.
LoadModel(r) ==
    /\ ~crashed
    /\ task[r].pc = "model"
    /\ LET t == [task[r] EXCEPT !.did = @ \cup {"model"},
                                !.model_path = store.path_model]
       IN  CASE store.path_model = ModelNonUtf8 ->
                  /\ task' = [task EXCEPT ![r] = Return(t, Panicked)]
                  /\ poisoned' = TRUE
             [] store.path_model = ModelRejected ->
                  /\ task' = [task EXCEPT ![r] =
                        Return([t EXCEPT !.context = "Err"], ModelLoadError)]
                  /\ poisoned' = poisoned
             [] OTHER ->
                  /\ task' = [task EXCEPT ![r] = [t EXCEPT !.context = "Ok", !.pc = "state"]]
                  /\ poisoned' = poisoned
    /\ lock' = Unlock(lock, r)
    /\ UNCHANGED <<store, wavSamples, crashed, nRuns, nSegs>>

\* CreateState without the `?` of line 105: a refused decode state is reported
\* and the run goes on.
CreateState_NoAbort(r) ==
    /\ ~crashed
    /\ task[r].pc = "state"
    /\ LET t == [task[r] EXCEPT !.did = @ \cup {"state"}]
           msg == "state_init"
       IN  \E ok \in BOOLEAN :
              task' = [task EXCEPT ![r] =
                 IF ok THEN [t EXCEPT !.state = "Ok", !.pc = "start"]
                 ELSE [t EXCEPT !.state = "Err", !.emits = emit_err(@, msg), !.pc = "start"]]
    /\ UNCHANGED <<store, lock, poisoned, wavSamples, crashed, nRuns, nSegs>>

\* Lines 102-105: create the decode state; the engine may refuse.
CreateState(r) ==
    /\ ~crashed
    /\ task[r].pc = "state"
    /\ LET t == [task[r] EXCEPT !.did = @ \cup {"state"}]
           msg == "state_init"
       IN  \E ok \in BOOLEAN :
              task' = [task EXCEPT ![r] =
                 IF ok THEN [t EXCEPT !.state = "Ok", !.pc = "start"]
                 ELSE Return([t EXCEPT !.state = "Err", !.emits = emit_err(@, msg)],
                             StateInitError)]
    /\ UNCHANGED <<store, lock, poisoned, wavSamples, crashed, nRuns, nSegs>>

\* EmitStart with the result of emit_all discarded, as emit_err does: a
\* refused "start" does not end the run.
EmitStart_IgnoreFailure(r) ==
    /\ ~crashed
    /\ task[r].pc = "start"
    /\ LET t == [task[r] EXCEPT !.did = @ \cup {"start"}]
       IN  \E ok \in BOOLEAN :
              task' = [task EXCEPT ![r] =
                 IF ok THEN [t EXCEPT !.emits = Append(@, Event("start", "start")),
                                      !.pc = "decode"]
                 ELSE [t EXCEPT !.pc = "decode"]]
    /\ UNCHANGED <<store, lock, poisoned, wavSamples, crashed, nRuns, nSegs>>

\* Lines 108-116: emit "start"; the host's bus may refuse the event.
EmitStart(r) ==
    /\ ~crashed
    /\ task[r].pc = "start"
    /\ LET t == [task[r] EXCEPT !.did = @ \cup {"start"}]
       IN  \E ok \in BOOLEAN :
              task' = [task EXCEPT ![r] =
                 IF ok THEN [t EXCEPT !.emits = Append(@, Event("start", "start")),
                                      !.pc = "decode"]
                 ELSE Return(t, EventEmissionError)]
    /\ UNCHANGED <<store, lock, poisoned, wavSamples, crashed, nRuns, nSegs>>

\* Line 119: `run` calls state.full and blocks in it.
CallFull(r) ==
    /\ ~crashed
    /\ task[r].pc = "decode"
    /\ task' = [task EXCEPT ![r] = [@ EXCEPT !.did = @ \cup {"full"}, !.pc = "full"]]
    /\ UNCHANGED <<store, lock, poisoned, wavSamples, crashed, nRuns, nSegs>>

\* Inside state.full: the engine finalizes one segment and calls the
\* callback once for it (n_new = 1).  STORE.lock() in the callback waits
\* while another holder has the mutex.
NewSegment(r) ==
    /\ ~crashed
    /\ task[r].pc = "full"
    /\ nSegs < MaxSegments
    /\ \E seg \in EngineSegments :
          /\ seg.text \in Subtitles => lock = 0
          /\ \E o \in whisper_callback([task[r] EXCEPT !.segments = Append(@, seg)],
                                       store, poisoned) :
                /\ task' = [task EXCEPT ![r] = o.task]
                /\ store' = o.store
                /\ crashed' = o.crashed
    /\ nSegs' = nSegs + 1
    /\ UNCHANGED <<lock, poisoned, wavSamples, nRuns>>

\* FullReturn without the emit_err of line 120: a decode failure is returned
\* to the caller only.
FullReturn_NoReport(r) ==
    /\ ~crashed
    /\ task[r].pc = "full"
    /\ LET t == task[r]
       IN  \E ok \in BOOLEAN :
              task' = [task EXCEPT ![r] =
                 IF ok THEN Return([t EXCEPT !.full = "Ok"], Ok)
                 ELSE Return([t EXCEPT !.full = "Err"], DecodeError)]
    /\ UNCHANGED <<store, lock, poisoned, wavSamples, crashed, nRuns, nSegs>>

\* Lines 119-123: state.full returns; an engine error is reported and
\* returned, otherwise `run` returns Ok.
FullReturn(r) ==
    /\ ~crashed
    /\ task[r].pc = "full"
    /\ LET t == task[r]
           msg == "model_run"
       IN  \E ok \in BOOLEAN :
              task' = [task EXCEPT ![r] =
                 IF ok THEN Return([t EXCEPT !.full = "Ok"], Ok)
                 ELSE Return([t EXCEPT !.full = "Err", !.emits = emit_err(@, msg)],
                             DecodeError)]
    /\ UNCHANGED <<store, lock, poisoned, wavSamples, crashed, nRuns, nSegs>>

\* ---------------------------------------------------------- specification
InitStore ==
    [path_wav |-> WavPcm16, path_model |-> ModelOk, lang |-> NoLang,
     translate |-> FALSE, ms_offset |-> 0, ms_duration |-> 0, segments |-> <<>>]

\* One task invokes `run`, again and again; the other slot stays unused.
Init ==
    /\ store = InitStore
    /\ lock = 0
    /\ poisoned = FALSE
    /\ wavSamples = DefaultSamples
    /\ task = [r \in Runs |-> FreshTask(IF r = 1 THEN "idle" ELSE "off", <<>>)]
    /\ crashed = FALSE
    /\ nRuns = 0
    /\ nSegs = 0

Next ==
    \E r \in Runs :
        \/ Invoke(r)
        \/ Lock(r)
        \/ OpenWav(r)
        \/ ReadSamples(r)
        \/ SetParams(r)
        \/ LoadModel(r)
        \/ CreateState(r)
        \/ EmitStart(r)
        \/ CallFull(r)
        \/ NewSegment(r)
        \/ FullReturn(r)

Spec == Init /\ [][Next]_vars

\* The audio loader alone, over every 16-bit sample: the WAV file holds one
\* sample, and the run goes as far as the normalisation.
InitAudio ==
    /\ store = InitStore
    /\ lock = 0
    /\ poisoned = FALSE
    /\ wavSamples \in {<<s>> : s \in I16_MIN..I16_MAX}
    /\ task = [r \in Runs |-> FreshTask(IF r = 1 THEN "lock" ELSE "off", <<>>)]
    /\ crashed = FALSE
    /\ nRuns = 1
    /\ nSegs = 0

NextAudio == \E r \in Runs : Lock(r) \/ OpenWav(r) \/ ReadSamples(r)

SpecAudio == InitAudio /\ [][NextAudio]_vars

\* Two tasks may invoke `run` against the same Store at the same time.
InitConc ==
    /\ store = InitStore
    /\ lock = 0
    /\ poisoned = FALSE
    /\ wavSamples = DefaultSamples
    /\ task = [r \in Runs |-> FreshTask("idle", <<>>)]
    /\ crashed = FALSE
    /\ nRuns = 0
    /\ nSegs = MaxSegments - MaxConcSegments

SpecConc == InitConc /\ [][Next]_vars

\* ----------------------------------------------------------------- claims
\* The positions in `log` of the events with the given status.
Positions(log, status) == {i \in 1..Len(log) : log[i].status = status}

\* Run r is inside a callback step: the engine adds a segment to its state.
InCallback(r) ==
    /\ task[r].pc = "full"
    /\ task'[r].pc = "full"
    /\ Len(task'[r].segments) = Len(task[r].segments) + 1

\* The text of the segment the callback of this step is invoked for.
CallbackText(r) == task'[r].segments[Len(task'[r].segments)].text

\* C1: at every invocation of whisper_callback the handle attached by `run`
\* is still live (not released), and it is released at most once in a run.
C1_HandleLiveAtEveryCallback ==
    [][\A r \in Runs :
          InCallback(r) => task[r].handle = "live" /\ task'[r].releases <= 1]_vars

\* C2: in every run "start" is emitted at most once, every "data" event comes
\* after it, and the Store grows only once "start" has been emitted.
C2_StartOnceBeforeData ==
    \A r \in Runs :
        LET log == task[r].emits IN
        /\ Cardinality(Positions(log, "start")) <= 1
        /\ \A i \in Positions(log, "data") :
              \E j \in Positions(log, "start") : j < i
        /\ (task[r].pc # "off" /\ store.segments # task[r].atStart)
              => Positions(log, "start") # {}

\* C2 witness: a run has emitted "start" and then two "data" events.
C2_Witness ==
    \E r \in Runs :
        /\ Cardinality(Positions(task[r].emits, "data")) >= 2
        /\ Len(store.segments) >= Len(task[r].atStart) + 2

\* C3: a run that returned a failure has emitted an "error" event, and a run
\* that returned Ok has emitted "start".
C3_FailureMirroredAsError ==
    \A r \in Runs :
        /\ (task[r].pc = "done" /\ task[r].result \in Failures)
              => Positions(task[r].emits, "error") # {}
        /\ (task[r].pc = "done" /\ task[r].result = Ok)
              => Positions(task[r].emits, "start") # {}

\* C4: when the audio file cannot be opened the run has returned the
\* audio-open error having done nothing but take the lock and try to open
\* the file: no model load, no decode state, no handle, no "start", no
\* decode, no segment.
C4_AudioOpenFailureStopsRun ==
    \A r \in Runs :
        (\/ task[r].reader = "Err"
         \/ ("open" \in task[r].did /\ store.path_wav = WavMissing))
        => /\ task[r].pc = "done"
           /\ task[r].result = AudioOpenError
           /\ task[r].did = {"lock", "open"}
           /\ task[r].context = "none"
           /\ task[r].state = "none"
           /\ task[r].handle = "none"
           /\ Positions(task[r].emits, "start") = {}
           /\ task[r].segments = <<>>
           /\ store.segments = task[r].atStart

\* C4 witness: a run has returned the audio-open error.
C4_Witness ==
    \E r \in Runs :
        /\ task[r].pc = "done"
        /\ task[r].result = AudioOpenError
        /\ store.path_wav = WavMissing

\* C5: when the engine cannot load the model the run has returned the
\* model-load error, the decode was never called, the callback never ran and
\* the Store's segments are those it held when the run began.
C5_ModelLoadFailureLeavesStore ==
    \A r \in Runs :
        (\/ task[r].context = "Err"
         \/ ("model" \in task[r].did /\ store.path_model = ModelRejected))
        => /\ task[r].pc = "done"
           /\ task[r].result = ModelLoadError
           /\ "full" \notin task[r].did
           /\ task[r].segments = <<>>
           /\ Positions(task[r].emits, "data") = {}
           /\ store.segments = task[r].atStart

\* C5 witness: a run that began with a segment in the Store has returned the
\* model-load error.
C5_Witness ==
    \E r \in Runs :
        /\ task[r].pc = "done"
        /\ task[r].result = ModelLoadError
        /\ task[r].atStart # <<>>

\* C6: a callback whose text is not valid UTF-8 emits exactly one "error"
\* event and leaves the Store's segments as they are; the Store grows only in
\* a callback whose text is valid.
C6_InvalidTextOneError ==
    [][\A r \in Runs :
          InCallback(r) =>
             /\ CallbackText(r) = InvalidText =>
                   /\ task'[r].emits = Append(task[r].emits, task'[r].emits[Len(task'[r].emits)])
                   /\ task'[r].emits[Len(task'[r].emits)].status = "error"
                   /\ store'.segments = store.segments
             /\ store'.segments # store.segments => CallbackText(r) \in Subtitles]_vars

\* C7: a callback whose text pointer is null emits one "error" event and
\* leaves the Store as it is, as a callback with invalid text does.
C7_NullTextEmitsError ==
    [][\A r \in Runs :
          (InCallback(r) /\ CallbackText(r) = NullText) =>
             /\ Len(task'[r].emits) = Len(task[r].emits) + 1
             /\ task'[r].emits[Len(task'[r].emits)].status = "error"
             /\ store' = store]_vars

\* The Segments the Store should hold for the engine's segments `segs`: one
\* per segment with valid text, in the engine's order, bounds times 10.
RECURSIVE Delivered(_)
Delivered(segs) ==
    IF segs = <<>> THEN <<>>
    ELSE LET rest == Delivered(SubSeq(segs, 1, Len(segs) - 1))
             last == segs[Len(segs)]
         IN  IF last.text \in Subtitles
             THEN Append(rest, [start_ms |-> last.t0 * 10, end_ms |-> last.t1 * 10,
                                text |-> last.text])
             ELSE rest

\* C8: after a run the Store holds what it held when the run began followed
\* by one Segment per valid-text segment of the engine, in the order of the
\* callbacks: none reordered, duplicated or dropped.
C8_StoreIsValidSegmentsInOrder ==
    \A r \in Runs :
        task[r].pc = "done"
        => store.segments = task[r].atStart \o Delivered(task[r].segments)

\* C8 witness: engine segments (0,50), (50,120), (120,200) with valid text
\* have left (0,500), (500,1200), (1200,2000) in the Store, in that order,
\* after a run that returned Ok.
C8_Witness ==
    \E r \in Runs :
        /\ task[r].pc = "done"
        /\ task[r].result = Ok
        /\ [i \in 1..Len(task[r].segments) |->
               <<task[r].segments[i].t0, task[r].segments[i].t1>>]
             = <<(<<0, 50>>), (<<50, 120>>), (<<120, 200>>)>>
        /\ [i \in 1..Len(store.segments) |->
               <<store.segments[i].start_ms, store.segments[i].end_ms>>]
             = <<(<<0, 500>>), (<<500, 1200>>), (<<1200, 2000>>)>>

InUnitRange(q) == -q.den <= q.num /\ q.num <= q.den

\* C10: every normalized sample the loader produces lies in [-1.0, 1.0].
C10_SamplesInUnitRange ==
    \A r \in Runs :
        \A i \in 1..Len(task[r].audio_data) : InUnitRange(task[r].audio_data[i])

\* C11: when state.full fails the run has returned the decode error, its
\* last event is the "error" event of that failure, and the Store still holds
\* every Segment appended before the failure (no rollback).
C11_DecodeFailureKeepsSegments ==
    \A r \in Runs :
        task[r].full = "Err"
        => /\ task[r].pc = "done"
           /\ task[r].result = DecodeError
           /\ task[r].emits # <<>>
           /\ task[r].emits[Len(task[r].emits)] = Event("error", "model_run")
           /\ store.segments = task[r].atStart \o Delivered(task[r].segments)

\* C11 witness: a decode has failed after two Segments were appended, and
\* both are in the Store.
C11_Witness ==
    \E r \in Runs :
        /\ task[r].full = "Err"
        /\ Len(Delivered(task[r].segments)) = 2
        /\ Len(store.segments) = Len(task[r].atStart) + 2

\* C12: a Store access that finds the mutex poisoned yields the
\* Store-unavailable failure and never aborts the process: `run` at line 62
\* returns it, and a callback that appends (line 39) does not abort.
C12_PoisonIsAFailureValue ==
    [][\A r \in Runs :
          /\ (poisoned /\ task[r].pc = "lock" /\ task'[r].pc # "lock")
                => task'[r].result = StoreUnavailable /\ ~crashed'
          /\ (poisoned /\ InCallback(r) /\ CallbackText(r) \in Subtitles)
                => ~crashed']_vars

\* C13: the handle attached to a run is never released inside the callback,
\* and when a run that attached it ends (Ok or a failure after line 92) it
\* has been released exactly once.
C13_HandleReleasedOnceAtEnd ==
    [][\A r \in Runs :
          /\ InCallback(r) => task'[r].releases = task[r].releases
          /\ (task[r].pc # "done" /\ task'[r].pc = "done" /\ "params" \in task'[r].did)
                => task'[r].releases = 1 /\ task'[r].handle = "freed"]_vars

\* C14: a callback leaves the run Running (the process alive, the run still
\* inside state.full); a valid-text callback appends its Segment and emits
\* its "data" event, whatever the earlier callbacks of the run were; and
\* the run's result is Ok exactly when state.full returned Ok.
C14_TextFailureIsIsolated ==
    [][\A r \in Runs :
          /\ InCallback(r) => ~crashed'
          /\ (InCallback(r) /\ CallbackText(r) \in Subtitles) =>
                LET seg == task'[r].segments[Len(task'[r].segments)]
                IN  /\ Len(store'.segments) = Len(store.segments) + 1
                    /\ store'.segments[Len(store'.segments)].text = seg.text
                    /\ Len(task'[r].emits) = Len(task[r].emits) + 1
                    /\ task'[r].emits[Len(task'[r].emits)].status = "data"
          /\ (task[r].pc = "full" /\ task'[r].pc = "done")
                => (task'[r].result = Ok <=> task'[r].full = "Ok")]_vars

\* C15: state.full is called, and the callback runs, only in a run whose
\* audio load, model load, decode-state creation and "start" emission all
\* succeeded; a run whose "start" emission failed has returned that failure
\* without calling state.full or the callback.
C15_DecodeOnlyAfterSetup ==
    \A r \in Runs :
        /\ ("full" \in task[r].did \/ task[r].pc \in {"decode", "full"}
               \/ task[r].segments # <<>> \/ task[r].full # "none")
            => /\ task[r].reader = "Ok"
               /\ "samples" \in task[r].did
               /\ task[r].audio_data = NormalizeAll(wavSamples)
               /\ task[r].context = "Ok"
               /\ task[r].state = "Ok"
               /\ Positions(task[r].emits, "start") # {}
        /\ task[r].result = EventEmissionError
            => /\ task[r].pc = "done"
               /\ "full" \notin task[r].did
               /\ task[r].segments = <<>>
               /\ task[r].did = {"lock", "open", "samples", "params", "model", "state", "start"}

\* C15 witness: after an earlier run whose callback ran, a run has returned
\* the start-emission failure.
C15_Witness ==
    \E r \in Runs :
        /\ task[r].pc = "done"
        /\ task[r].result = EventEmissionError
        /\ nSegs > 0

\* The state of a run in the machine Idle -> Configured -> Running ->
\* {Completed | Failed}: Configured once the audio and the model are loaded,
\* Running once the decode state exists and "start" was emitted.
Phase(t) ==
    CASE t.pc \in {"off", "idle", "lock", "open", "samples", "params", "model"} -> "Idle"
      [] t.pc \in {"state", "start"} -> "Configured"
      [] t.pc \in {"decode", "full"} -> "Running"
      [] t.pc = "done" /\ t.result = Ok -> "Completed"
      [] OTHER -> "Failed"

\* The moves the machine allows; a terminal state is left only by a new
\* invocation of `run`.
PhaseMoves ==
    {<<"Idle", "Configured">>, <<"Configured", "Running">>, <<"Running", "Completed">>,
     <<"Idle", "Failed">>, <<"Configured", "Failed">>, <<"Running", "Failed">>}

\* A step of `run` or of the engine on its behalf.
RunStep(r) ==
    \/ Lock(r) \/ OpenWav(r) \/ ReadSamples(r) \/ SetParams(r) \/ LoadModel(r)
    \/ CreateState(r) \/ EmitStart(r) \/ CallFull(r) \/ NewSegment(r) \/ FullReturn(r)

\* C16: a run moves only along Idle -> Configured -> Running -> {Completed |
\* Failed}, Completed only when state.full returned Ok, and a run that has
\* not ended can always take a step towards its end unless it waits for the
\* Store lock (so that every run ends).
C16_RunStateMachine ==
    /\ [][\A r \in Runs :
             \/ Phase(task'[r]) = Phase(task[r])
             \/ <<Phase(task[r]), Phase(task'[r])>> \in PhaseMoves
             \/ task'[r].pc = "lock"]_vars
    /\ [](\A r \in Runs :
             /\ Phase(task[r]) = "Completed" => task[r].full = "Ok"
             /\ (task[r].pc \notin {"off", "idle", "done"}
                    /\ ~(task[r].pc = "lock" /\ lock # 0))
                 => ENABLED RunStep(r))

\* C17, as claimed: `run` does not hold the Store's lock while it opens or
\* reads the audio file, loads the model, emits an event or decodes.
C17_LockOnlyPerAccessor ==
    \A r \in Runs :
        task[r].pc \in {"open", "samples", "model", "start", "decode", "full"}
        => lock # r

\* C17, amended: `run` holds the Store's lock exactly while it is in the
\* set-up block of lines 62-99 (audio open and read, parameters, model
\* load), and at no other position.
C17_LockHeldAcrossSetup ==
    \A r \in Runs :
        lock = r <=> task[r].pc \in {"open", "samples", "params", "model"}

\* C17 witness: a run that has opened and read the audio file is about to
\* load the model and still holds the lock it took at line 62.
C17_Witness ==
    \E r \in Runs :
        /\ lock = r
        /\ task[r].pc = "model"
        /\ task[r].reader = "Ok"
        /\ task[r].audio_data # <<>>

\* C18: from the end of the set-up block on, and so when `run` calls
\* state.full and while the callback runs, `run` does not hold the Store's
\* lock: the callback's STORE.lock() never waits for its own caller.
C18_NoLockDuringDecode ==
    \A r \in Runs :
        task[r].pc \in {"state", "start", "decode", "full"} => lock # r

\* C18 witness: a run is inside state.full and its callback has taken the
\* lock and appended a Segment.
C18_Witness ==
    \E r \in Runs :
        /\ task[r].pc = "full"
        /\ Positions(task[r].emits, "data") # {}
        /\ store.segments # <<>>
        /\ lock # r

\* C19: of two runs on the same Store at most one is inside state.full at a
\* time, and the Store never interleaves their Segments: it holds those of
\* one run, then those of the other.
C19_RunsAreSerialized ==
    /\ Cardinality({r \in Runs : task[r].pc = "full"}) <= 1
    /\ (\A r \in Runs : "full" \in task[r].did)
        => \E a, b \in Runs :
              /\ a # b
              /\ store.segments =
                    task[a].atStart \o Delivered(task[a].segments)
                                    \o Delivered(task[b].segments)

\* C20: every setting a run uses is the one the Store held when the run took
\* the lock at line 62: the Store's request does not change while the run
\* holds the lock, the audio path, the parameters (language "ja" when unset)
\* and the model path are those of that moment, and none is an argument of
\* `run`.
C20_OneSnapshotOfTheStore ==
    \A r \in Runs :
        LET t == task[r] IN
        /\ lock = r => Request(store) = t.locked
        /\ t.wav_path # "none"
            => t.wav_path = t.locked.path_wav /\ t.wav_path # t.args.path_wav
        /\ "params" \in t.did
            => /\ t.params.lang = (IF t.locked.lang = NoLang THEN "ja" ELSE t.locked.lang)
               /\ t.params.translate = t.locked.translate
               /\ t.params.offset_ms = t.locked.ms_offset
               /\ t.params.duration_ms = t.locked.ms_duration
               /\ t.params.lang # t.args.lang
        /\ t.model_path # "none"
            => t.model_path = t.locked.path_model /\ t.model_path # t.args.path_model

\* C20 witness: a run has read all its settings, the language defaulted to
\* "ja", and the Store's request was changed by another caller afterwards.
C20_Witness ==
    \E r \in Runs :
        /\ task[r].model_path # "none"
        /\ "params" \in task[r].did
        /\ task[r].params.lang = "ja"
        /\ Request(store) # task[r].locked

====
